---- MODULE Spec2Model ----
(***************************************************************************)
(* Model of datadog/src/app_helper.py: the Flask request hooks that        *)
(* forward request/response attributes to a DogStatsd client.              *)
(*                                                                         *)
(* A request is served as: arrival, the before_request hook (start_timer), *)
(* the application's view (which may stash attributes on the request and   *)
(* produces the response), then the after_request hooks registered by      *)
(* setup_datadog_metrics.  Every statsd call appends one datagram to the   *)
(* stream `sent`, kept per emitting request.                               *)
(***************************************************************************)
EXTENDS Integers, Sequences, FiniteSets, TLC

VARIABLES
    now,         \* the wall clock read by time.time()
    pc,          \* pc[r]: where request r is in its lifecycle
    request,     \* request[o]: the attributes of request object o
    start_time,  \* start_time[o]: the start_time attribute of request object o
    response,    \* response[r]: the response handed to r's next after hook
    entered,     \* entered[r]: the response that entered r's after-hook chain
    idx,         \* idx[r]: position of r's next hook in the after-request order
    ran,         \* ran[r]: the after hooks that have executed for r, in order
    returned,    \* returned[r]: <<given, returned>> per hook that returned
    sent,        \* sent[r]: the statsd datagrams emitted while serving r
    fault,       \* fault[r]: per executed hook, its statsd call that raised (0: none)
    error,       \* error[r]: the exception a hook let out into Flask ("": none)
    timer_read,  \* timer_read[r]: the start_time record stop_timer read for r
    started_at,  \* started_at[r]: the clock value r's own start_timer wrote
    probe        \* the pair of amounts categorised by get_amount_range

vars == <<now, pc, request, start_time, response, entered, idx, ran, returned,
          sent, fault, error, timer_read, started_at, probe>>

----------------------------------------------------------------------------
(* Bounds of the model *)

MaxTime == 2

NumRequests == 2

MaxAmount == 203

----------------------------------------------------------------------------
(* Metric names, lines 10-21 *)

PURCHASE_AMOUNT_METRIC == "ecommerce.purchase_amount"
PURCHASE_COUNT_METRIC == "ecommerce.purchase_count"
PROCESSING_TIME_METRIC == "ecommerce.processing_time"
REQUEST_LATENCY_METRIC_NAME == "request_latency_seconds_hist"
REQUEST_COUNT == "request_count"
ERROR_COUNT == "error_count"
BUSINESS_METRIC == "business_value"
DB_QUERY_COUNT == "database_queries_total"
MEMORY_USAGE_METRIC == "memory_usage_bytes"
CPU_USAGE_METRIC == "cpu_usage_seconds"

----------------------------------------------------------------------------
(* Python values.  An attribute is absent, an integer or a string. *)

NoAttr == [t |-> "none", n |-> 0, s |-> ""]
IntAttr(n) == [t |-> "int", n |-> n, s |-> ""]
StrAttr(s) == [t |-> "str", n |-> 0, s |-> s]

\* getattr(obj, name, default): the attribute if set, else the default
getattr(attr, default) == IF attr.t = "none" THEN default ELSE attr

\* The strings Python's float()/int() accept, with their values
NumericLiteral == [s \in {"3"} |-> 3]

\* float(x): a number stays a number, a numeric string is parsed, anything
\* else raises ValueError
float(x) ==
    IF x.t = "int" THEN [raised |-> FALSE, v |-> x.n]
    ELSE IF x.t = "str" /\ x.s \in DOMAIN NumericLiteral
         THEN [raised |-> FALSE, v |-> NumericLiteral[x.s]]
    ELSE [raised |-> TRUE, v |-> 0]

\* request.args.get(key, default, type=int): the converted argument, or the
\* default when the argument is missing or its conversion fails
args_get(arg, default) ==
    IF arg.t = "str" /\ arg.s \in DOMAIN NumericLiteral
    THEN NumericLiteral[arg.s]
    ELSE default

\* The response None, and a response object with its status code
None == [is_none |-> TRUE, status_code |-> 0]
Response(s) == [is_none |-> FALSE, status_code |-> s]

\* An f-string tag "key:value"
Tag(k, v) == <<k, v>>

Datagram(kind, name, value, tags) ==
    [kind |-> kind, name |-> name, value |-> value, tags |-> tags]

\* The first k elements of a sequence
Take(s, k) == SubSeq(s, 1, IF k < Len(s) THEN k ELSE Len(s))

\* The calls of `planned` that reach the client when its fail-th call raises
\* (fail = 0, or beyond the last call: none raises)
Emitted(planned, fail) ==
    IF fail >= 1 /\ fail <= Len(planned) THEN Take(planned, fail - 1) ELSE planned

Raises(planned, fail) == fail >= 1 /\ fail <= Len(planned)

\* The outcome of calling a hook: whether it raised and what (exc), the
\* statsd call that raised inside it (fault, 0: none), the value it returned
\* and the datagrams it emitted
Outcome(exc, at, ret, out) ==
    [raised |-> exc # "", exc |-> exc, fault |-> at, ret |-> ret, out |-> out]

\* Having made the calls `planned`, of which the fail-th raises
Fault(planned, fail) == IF Raises(planned, fail) THEN fail ELSE 0

----------------------------------------------------------------------------
(* get_amount_range, lines 168-177 *)

\* Variant: the boundary 10 kept in the lower bucket
get_amount_range_le(amount) ==
    IF amount <= 10 THEN "small"
    ELSE IF amount < 50 THEN "medium"
    ELSE IF amount < 200 THEN "large"
    ELSE "premium"

get_amount_range(amount) ==
    IF amount < 10 THEN "small"
    ELSE IF amount < 50 THEN "medium"
    ELSE IF amount < 200 THEN "large"
    ELSE "premium"

----------------------------------------------------------------------------
(* stop_timer, lines 29-43.  q is the request object, st its start_time     *)
(* attribute, fail the statsd call of this invocation that raises (0: none) *)

latency_tags(q, resp) ==
    << Tag("service", "webapp"),
       Tag("endpoint", q.path),
       Tag("method", q.method),
       Tag("status", ToString(resp.status_code)) >>

stop_timer_calls(q, st, resp, t) ==
    << Datagram("histogram", REQUEST_LATENCY_METRIC_NAME, t - st.t,
                latency_tags(q, resp)) >>

stop_timer(q, st, resp, t, fail) ==
    IF ~st.set \/ resp.is_none
    THEN \* request.start_time / response.status_code
         Outcome("AttributeError", 0, resp, <<>>)
    ELSE LET planned == stop_timer_calls(q, st, resp, t)
         IN  Outcome(IF Raises(planned, fail) THEN "StatsdError" ELSE "",
                     Fault(planned, fail), resp, Emitted(planned, fail))

----------------------------------------------------------------------------
(* record_request_data, lines 46-112 *)

\* Variant: the status tag left out
request_tags_no_status(q, resp) ==
    << Tag("service", "webapp"),
       Tag("method", q.method),
       Tag("endpoint", q.path) >>

request_tags(q, resp) ==
    << Tag("service", "webapp"),
       Tag("method", q.method),
       Tag("endpoint", q.path),
       Tag("status", ToString(resp.status_code)) >>

\* Variant: 600 counted as an error
is_error_le(status_code) == 400 <= status_code /\ status_code <= 600

\* line 60
is_error(status_code) == 400 <= status_code /\ status_code < 600

DB_PATHS == {"/users", "/database-query", "/health"}

\* lines 49-69: the request count, and the error count for a failure status
count_calls(q, resp) ==
    << Datagram("increment", REQUEST_COUNT, 1, request_tags(q, resp)) >>
    \o (IF is_error(resp.status_code)
        THEN << Datagram("increment", ERROR_COUNT, 1, request_tags(q, resp)) >>
        ELSE <<>>)

\* lines 72-110: the per-endpoint metrics
endpoint_calls(q) ==
    (IF q.path \in DB_PATHS
     THEN << Datagram("increment", DB_QUERY_COUNT, 1,
                      << Tag("service", "webapp"), Tag("endpoint", q.path),
                         Tag("method", q.method) >>) >>
     ELSE <<>>)
    \o (IF q.path = "/delay" /\ ~float(getattr(q.business_value, IntAttr(1))).raised
        THEN << Datagram("gauge", BUSINESS_METRIC,
                         float(getattr(q.business_value, IntAttr(1))).v,
                         << Tag("service", "webapp"),
                            Tag("metric_type", "performance") >>) >>
        ELSE <<>>)
    \o (IF q.path = "/memory-usage"
        THEN << Datagram("gauge", MEMORY_USAGE_METRIC,
                         args_get(q.size, 10) * 1024 * 1024,
                         << Tag("service", "webapp"),
                            Tag("operation", "memory_allocation") >>) >>
        ELSE <<>>)
    \o (IF q.path = "/cpu-intensive"
        THEN << Datagram("gauge", CPU_USAGE_METRIC,
                         getattr(q.cpu_execution_time, IntAttr(0)).n,
                         << Tag("service", "webapp"),
                            Tag("operation", "cpu_intensive") >>) >>
        ELSE <<>>)

\* line 86: float() of a non-numeric business_value raises ValueError
business_value_raises(q) ==
    q.path = "/delay" /\ float(getattr(q.business_value, IntAttr(1))).raised

record_request_data(q, resp, fail) ==
    IF resp.is_none
    THEN \* response.status_code
         Outcome("AttributeError", 0, resp, <<>>)
    ELSE LET planned == count_calls(q, resp) \o endpoint_calls(q)
         IN  Outcome(IF Raises(planned, fail) THEN "StatsdError"
                     ELSE IF business_value_raises(q) THEN "ValueError"
                     ELSE "",
                     Fault(planned, fail), resp, Emitted(planned, fail))

----------------------------------------------------------------------------
(* record_purchase_metrics, lines 114-166 *)

\* line 122
is_purchase(q) == q.path = "/purchase" /\ q.method = "POST"

\* lines 124-127, 136: reading the attributes and bucketing the amount;
\* comparing a non-number with 10 raises TypeError
purchase_read_raises(q) == getattr(q.purchase_amount, IntAttr(0)).t # "int"

\* Variant: the count sent before the gauge
purchase_calls_swapped(q) ==
    LET purchase_amount == getattr(q.purchase_amount, IntAttr(0)).n
        processing_time == getattr(q.processing_time, IntAttr(0)).n
        quantity == getattr(q.quantity, IntAttr(0)).n
        product_id == getattr(q.product_id, StrAttr("unknown")).s
    IN  << Datagram("increment", PURCHASE_COUNT_METRIC, quantity,
                    << Tag("service", "webapp"),
                       Tag("transaction_type", "purchase"),
                       Tag("product_id", product_id) >>),
           Datagram("gauge", PURCHASE_AMOUNT_METRIC, purchase_amount,
                    << Tag("service", "webapp"),
                       Tag("currency", "USD"),
                       Tag("amount_range", get_amount_range(purchase_amount)),
                       Tag("product_id", product_id) >>),
           Datagram("distribution", PROCESSING_TIME_METRIC, processing_time,
                    << Tag("service", "webapp"),
                       Tag("operation", "purchase") >>) >>

\* lines 130-160
purchase_calls(q) ==
    LET purchase_amount == getattr(q.purchase_amount, IntAttr(0)).n
        processing_time == getattr(q.processing_time, IntAttr(0)).n
        quantity == getattr(q.quantity, IntAttr(0)).n
        product_id == getattr(q.product_id, StrAttr("unknown")).s
    IN  << Datagram("gauge", PURCHASE_AMOUNT_METRIC, purchase_amount,
                    << Tag("service", "webapp"),
                       Tag("currency", "USD"),
                       Tag("amount_range", get_amount_range(purchase_amount)),
                       Tag("product_id", product_id) >>),
           Datagram("increment", PURCHASE_COUNT_METRIC, quantity,
                    << Tag("service", "webapp"),
                       Tag("transaction_type", "purchase"),
                       Tag("product_id", product_id) >>),
           Datagram("distribution", PROCESSING_TIME_METRIC, processing_time,
                    << Tag("service", "webapp"),
                       Tag("operation", "purchase") >>) >>

\* Variant: the purchase branch falls off the end and returns None
record_purchase_metrics_drops(q, resp, fail) ==
    IF resp.is_none \/ ~is_purchase(q) \/ purchase_read_raises(q)
    THEN Outcome("", 0, resp, <<>>)
    ELSE Outcome("", Fault(purchase_calls(q), fail), None,
                 Emitted(purchase_calls(q), fail))

\* The try/except of lines 120-164 absorbs whatever is raised inside it
record_purchase_metrics(q, resp, fail) ==
    IF resp.is_none
    THEN Outcome("", 0, resp, <<>>)
    ELSE IF ~is_purchase(q) \/ purchase_read_raises(q)
    THEN Outcome("", 0, resp, <<>>)
    ELSE Outcome("", Fault(purchase_calls(q), fail), resp,
                 Emitted(purchase_calls(q), fail))

----------------------------------------------------------------------------
(* setup_datadog_metrics, lines 180-188 *)

\* The after_request functions in the order of their registration
after_request_funcs ==
    << "stop_timer", "record_request_data", "record_purchase_metrics" >>

Reverse(s) == [i \in 1..Len(s) |-> s[Len(s) + 1 - i]]

\* Flask's process_response calls the after_request functions of an app in
\* the reverse of their registration order, each on the previous one's result
process_response == Reverse(after_request_funcs)

\* Variant: one request object shared by the whole process
request_shared(r) == 1

\* The request object Flask's context-local `request` proxy designates while
\* request r is being served: r's own
ctx(r) == r

-----------------------------------------------------------------------------------------------------------------------------------------------
(* The environment: what a client may request, what the application's view *)
(* may leave on the request and return, and which statsd call of a hook    *)
(* invocation raises (0: none does).                                       *)

\* Every endpoint, status class and attribute value; the response may be
\* None and a statsd call may raise
WideEnv ==
    [paths |-> {"/purchase", "/delay", "/users", "/memory-usage",
                "/cpu-intensive", "/"},
     methods |-> {"GET", "POST"},
     statuses |-> {200, 302, 399, 400, 599, 600},
     none_response |-> TRUE,
     stashes |-> TRUE,
     fails |-> 0..3]

\* The same with a client that never raises and a response that is never None
ReliableEnv == [WideEnv EXCEPT !.none_response = FALSE, !.fails = {0}]

\* A small environment for concurrently served requests
NarrowEnv ==
    [paths |-> {"/"},
     methods |-> {"GET", "POST"},
     statuses |-> {200},
     none_response |-> FALSE,
     stashes |-> FALSE,
     fails |-> {0, 1}]

Responses(env) ==
    {Response(s) : s \in env.statuses}
      \cup (IF env.none_response THEN {None} ELSE {})

\* The query argument `size`, read for /memory-usage only
Sizes(path) ==
    IF path = "/memory-usage" THEN {NoAttr, StrAttr("3"), StrAttr("abc")} ELSE {NoAttr}

NoStash ==
    [business_value |-> NoAttr, purchase_amount |-> NoAttr,
     processing_time |-> NoAttr, quantity |-> NoAttr, product_id |-> NoAttr,
     cpu_execution_time |-> NoAttr]

\* The attributes the view stashes on the request, per endpoint
Stashes(path, env) ==
    IF ~env.stashes THEN {NoStash}
    ELSE IF path = "/delay"
    THEN {[NoStash EXCEPT !.business_value = v] :
            v \in {NoAttr, IntAttr(2), StrAttr("3"), StrAttr("abc")}}
    ELSE IF path = "/cpu-intensive"
    THEN {[NoStash EXCEPT !.cpu_execution_time = v] : v \in {NoAttr, IntAttr(4)}}
    ELSE IF path = "/purchase"
    THEN {[NoStash EXCEPT !.purchase_amount = a, !.quantity = n,
                          !.processing_time = n, !.product_id = p] :
            a \in {NoAttr, IntAttr(250), StrAttr("abc")},
            n \in {NoAttr, IntAttr(2)},
            p \in {NoAttr, StrAttr("p1")}}
    ELSE {NoStash}

NoRequest ==
    [path |-> "", method |-> "", size |-> NoAttr] @@ NoStash

Unset == [set |-> FALSE, t |-> 0, by |-> 0]

----------------------------------------------------------------------------
(* The state after construction, for the requests of S *)

InitOn(S) ==
    /\ now = 0
    /\ pc = [r \in S |-> "idle"]
    /\ request = [r \in S |-> NoRequest]
    /\ start_time = [r \in S |-> Unset]
    /\ response = [r \in S |-> None]
    /\ entered = [r \in S |-> None]
    /\ idx = [r \in S |-> 0]
    /\ ran = [r \in S |-> <<>>]
    /\ returned = [r \in S |-> <<>>]
    /\ sent = [r \in S |-> <<>>]
    /\ fault = [r \in S |-> <<>>]
    /\ error = [r \in S |-> ""]
    /\ timer_read = [r \in S |-> Unset]
    /\ started_at = [r \in S |-> 0]
    /\ probe = [set |-> FALSE, a |-> 0, b |-> 0, ra |-> "", rb |-> ""]

\* time.time() advances
Tick ==
    /\ now < MaxTime
    /\ now' = now + 1
    /\ UNCHANGED <<pc, request, start_time, response, entered, idx, ran,
                   returned, sent, fault, error, timer_read, started_at, probe>>

\* A request arrives: Flask builds its request object
Arrive(r, env) ==
    /\ pc[r] = "idle"
    /\ \E path \in env.paths, method \in env.methods :
         \E size \in Sizes(path) :
           request' = [request EXCEPT ![ctx(r)] =
                         [NoRequest EXCEPT !.path = path, !.method = method,
                                           !.size = size]]
    /\ pc' = [pc EXCEPT ![r] = "before"]
    /\ UNCHANGED <<now, start_time, response, entered, idx, ran, returned,
                   sent, fault, error, timer_read, started_at, probe>>

\* start_timer, lines 24-26, the before_request hook
StartTimer(r) ==
    /\ pc[r] = "before"
    /\ start_time' = [start_time EXCEPT ![ctx(r)] =
                        [set |-> TRUE, t |-> now, by |-> r]]
    /\ started_at' = [started_at EXCEPT ![r] = now]
    /\ pc' = [pc EXCEPT ![r] = "view"]
    /\ UNCHANGED <<now, request, response, entered, idx, ran, returned, sent,
                   fault, error, timer_read, probe>>

\* The application's view: stashes attributes, produces the response, which
\* then enters the after-request chain
View(r, env) ==
    /\ pc[r] = "view"
    /\ \E stash \in Stashes(request[ctx(r)].path, env), resp \in Responses(env) :
         /\ request' = [request EXCEPT ![ctx(r)] =
                          [f \in DOMAIN NoRequest |->
                             IF f \in DOMAIN stash THEN stash[f] ELSE @[f]]]
         /\ response' = [response EXCEPT ![r] = resp]
         /\ entered' = [entered EXCEPT ![r] = resp]
    /\ idx' = [idx EXCEPT ![r] = 1]
    /\ pc' = [pc EXCEPT ![r] = "after"]
    /\ UNCHANGED <<now, start_time, ran, returned, sent, fault, error,
                   timer_read, started_at, probe>>

\* Whether `hook` is the next after_request function Flask calls for r
NextHook(r, hook) ==
    /\ pc[r] = "after"
    /\ idx[r] \in 1..Len(process_response)
    /\ process_response[idx[r]] = hook

\* Flask calls `hook` on the current response; res is the hook's outcome.  A
\* raise leaves the chain; a return passes the returned response on.
Called(r, hook, res) ==
    /\ ran' = [ran EXCEPT ![r] = Append(@, hook)]
    /\ sent' = [sent EXCEPT ![r] = @ \o res.out]
    /\ fault' = [fault EXCEPT ![r] = Append(@, res.fault)]
    /\ error' = [error EXCEPT ![r] = res.exc]
    /\ IF res.raised
       THEN /\ pc' = [pc EXCEPT ![r] = "raised"]
            /\ UNCHANGED <<response, idx, returned>>
       ELSE /\ returned' = [returned EXCEPT ![r] =
                              Append(@, [hook |-> hook, given |-> response[r],
                                         ret |-> res.ret])]
            /\ response' = [response EXCEPT ![r] = res.ret]
            /\ idx' = [idx EXCEPT ![r] = @ + 1]
            /\ pc' = [pc EXCEPT ![r] =
                        IF idx[r] = Len(process_response) THEN "done" ELSE "after"]

StopTimer(r, env) ==
    /\ NextHook(r, "stop_timer")
    /\ timer_read' = [timer_read EXCEPT ![r] = start_time[ctx(r)]]
    /\ \E fail \in env.fails :
         Called(r, "stop_timer",
                stop_timer(request[ctx(r)], start_time[ctx(r)], response[r],
                           now, fail))
    /\ UNCHANGED <<now, request, start_time, entered, started_at, probe>>

RecordRequestData(r, env) ==
    /\ NextHook(r, "record_request_data")
    /\ \E fail \in env.fails :
         Called(r, "record_request_data",
                record_request_data(request[ctx(r)], response[r], fail))
    /\ UNCHANGED <<now, request, start_time, entered, timer_read, started_at,
                   probe>>

RecordPurchaseMetrics(r, env) ==
    /\ NextHook(r, "record_purchase_metrics")
    /\ \E fail \in env.fails :
         Called(r, "record_purchase_metrics",
                record_purchase_metrics(request[ctx(r)], response[r], fail))
    /\ UNCHANGED <<now, request, start_time, entered, timer_read, started_at,
                   probe>>

\* One request at a time, in the wide environment
Init == InitOn({1})

Next ==
    \/ Tick
    \/ Arrive(1, WideEnv)
    \/ StartTimer(1)
    \/ View(1, WideEnv)
    \/ StopTimer(1, WideEnv)
    \/ RecordRequestData(1, WideEnv)
    \/ RecordPurchaseMetrics(1, WideEnv)

Spec == Init /\ [][Next]_vars

\* One request at a time, with a statsd client that never raises and a
\* response that is never None
NextReliable ==
    \/ Tick
    \/ Arrive(1, ReliableEnv)
    \/ StartTimer(1)
    \/ View(1, ReliableEnv)
    \/ StopTimer(1, ReliableEnv)
    \/ RecordRequestData(1, ReliableEnv)
    \/ RecordPurchaseMetrics(1, ReliableEnv)

SpecReliable == Init /\ [][NextReliable]_vars

\* Concurrently in-flight requests, interleaved at the hooks
InitConcurrent == InitOn(1..NumRequests)

NextConcurrent ==
    \/ Tick
    \/ \E r \in 1..NumRequests :
         \/ Arrive(r, NarrowEnv)
         \/ StartTimer(r)
         \/ View(r, NarrowEnv)
         \/ StopTimer(r, NarrowEnv)
         \/ RecordRequestData(r, NarrowEnv)
         \/ RecordPurchaseMetrics(r, NarrowEnv)

SpecConcurrent == InitConcurrent /\ [][NextConcurrent]_vars

\* get_amount_range applied to pairs of amounts
Amounts == (0 - 3)..MaxAmount

Categorize ==
    /\ ~probe.set
    /\ \E a \in Amounts, b \in Amounts :
         probe' = [set |-> TRUE, a |-> a, b |-> b, ra |-> get_amount_range(a),
                   rb |-> get_amount_range(b)]
    /\ UNCHANGED <<now, pc, request, start_time, response, entered, idx, ran,
                   returned, sent, fault, error, timer_read, started_at>>

NextAmount == Categorize

SpecAmount == Init /\ [][NextAmount]_vars

----------------------------------------------------------------------------
(* Configuration of the metrics core described in the specification: the   *)
(* maximum number of distinct metric keys (scaled down from 10000)         *)

maxCardinality == 2

----------------------------------------------------------------------------
(* Vocabulary of the properties *)

Reqs == DOMAIN pc

\* The request object and the status of the response of request r
Obj(r) == request[ctx(r)]

HasRun(r, hook) == \E i \in 1..Len(ran[r]) : ran[r][i] = hook

\* The datagrams of metric `name` emitted while serving r
Named(r, name) == SelectSeq(sent[r], LAMBDA d : d.name = name)

TagSet(d) == {d.tags[i] : i \in 1..Len(d.tags)}

\* The identity of a metric: its name and its set of tags
MetricKey(d) == <<d.name, TagSet(d)>>

\* The datagrams emitted while serving r, as a set
SentSet(r) == {sent[r][i] : i \in 1..Len(sent[r])}

DistinctKeys == UNION {{MetricKey(d) : d \in SentSet(r)} : r \in Reqs}

\* The tag set {service, endpoint, method, status} of request r
RequestTagSet(r) ==
    { Tag("service", "webapp"), Tag("endpoint", Obj(r).path),
      Tag("method", Obj(r).method),
      Tag("status", ToString(entered[r].status_code)) }

PurchaseMetrics ==
    {PURCHASE_AMOUNT_METRIC, PURCHASE_COUNT_METRIC, PROCESSING_TIME_METRIC}

\* What record_purchase_metrics emitted for r, as <<kind, name>> pairs
PurchaseSent(r) ==
    LET ds == SelectSeq(sent[r], LAMBDA d : d.name \in PurchaseMetrics)
    IN  [i \in 1..Len(ds) |-> <<ds[i].kind, ds[i].name>>]

PurchaseOrder ==
    << <<"gauge", PURCHASE_AMOUNT_METRIC>>,
       <<"increment", PURCHASE_COUNT_METRIC>>,
       <<"distribution", PROCESSING_TIME_METRIC>> >>

\* The value by which purchase_count was incremented for r, if it was
CountValues(r) ==
    {d.value : d \in {e \in SentSet(r) : e.name = PURCHASE_COUNT_METRIC}}

Quantity(r) == IF Obj(r).quantity.t = "int" THEN Obj(r).quantity.n ELSE 0

\* The statsd call that raised inside `hook` when it ran for r (0: none)
HookFault(r, hook) ==
    LET is == {i \in 1..Len(ran[r]) : ran[r][i] = hook}
    IN  IF is = {} THEN 0 ELSE fault[r][CHOOSE i \in is : TRUE]

PurchaseFault(r) == HookFault(r, "record_purchase_metrics")

Rank(label) ==
    CASE label = "small" -> 1
      [] label = "medium" -> 2
      [] label = "large" -> 3
      [] label = "premium" -> 4
      [] OTHER -> 0

----------------------------------------------------------------------------
(* C1: none of the hooks lets an exception out into the request-serving    *)
(* path, whatever the request attributes and the statsd calls do.          *)
C1_NoHookRaises == \A r \in Reqs : pc[r] # "raised" /\ error[r] = ""

(* C2: every after-request hook that returns, returns the response it was  *)
(* given, and the response leaving the chain of three hooks is the one     *)
(* that entered it.                                                        *)
C2_ResponseUnchanged ==
    \A r \in Reqs :
      /\ \A i \in 1..Len(returned[r]) : returned[r][i].ret = returned[r][i].given
      /\ pc[r] = "done" => response[r] = entered[r]

C2_Witness ==
    \E r \in Reqs :
      /\ pc[r] = "done"
      /\ Len(returned[r]) = 3
      /\ Obj(r).path = "/purchase" /\ Obj(r).method = "POST"
      /\ entered[r] = Response(599)
      /\ response[r] = Response(599)

(* C3: for every completed request (all after hooks returned) exactly one  *)
(* latency histogram sample and exactly one request_count increment were   *)
(* emitted, both tagged with the set {service:webapp, endpoint, method,    *)
(* status} of that request, whatever the order of the tags.                *)
C3_OneLatencyOneCount ==
    \A r \in Reqs :
      pc[r] = "done" =>
        /\ Len(Named(r, REQUEST_LATENCY_METRIC_NAME)) = 1
        /\ Len(Named(r, REQUEST_COUNT)) = 1
        /\ Named(r, REQUEST_LATENCY_METRIC_NAME)[1].kind = "histogram"
        /\ Named(r, REQUEST_COUNT)[1].kind = "increment"
        /\ Named(r, REQUEST_COUNT)[1].value = 1
        /\ TagSet(Named(r, REQUEST_LATENCY_METRIC_NAME)[1]) = RequestTagSet(r)
        /\ TagSet(Named(r, REQUEST_COUNT)[1]) = RequestTagSet(r)

C3_Witness ==
    \E r \in Reqs :
      /\ pc[r] = "done"
      /\ Obj(r).path = "/users" /\ Obj(r).method = "GET"
      /\ entered[r] = Response(302)
      /\ Len(Named(r, REQUEST_COUNT)) = 1
      /\ Len(Named(r, REQUEST_LATENCY_METRIC_NAME)) = 1
      /\ Named(r, REQUEST_COUNT)[1].tags
           # Named(r, REQUEST_LATENCY_METRIC_NAME)[1].tags

(* C4: for every request on which record_request_data ran with a response  *)
(* and without a statsd call raising in it (every completed request is     *)
(* one), error_count was incremented exactly once when the status code is  *)
(* in 400..599 and not at all otherwise, and request_count was incremented *)
(* in either case.                                                         *)
C4_ErrorCount ==
    \A r \in Reqs :
      (\/ pc[r] = "done"
       \/ /\ HasRun(r, "record_request_data")
          /\ ~entered[r].is_none
          /\ HookFault(r, "record_request_data") = 0) =>
        /\ Len(Named(r, ERROR_COUNT)) =
             (IF entered[r].status_code \in 400..599 THEN 1 ELSE 0)
        /\ \A i \in 1..Len(Named(r, ERROR_COUNT)) :
             /\ Named(r, ERROR_COUNT)[i].kind = "increment"
             /\ Named(r, ERROR_COUNT)[i].value = 1
        /\ Len(Named(r, REQUEST_COUNT)) = 1

C4_Witness ==
    \E r \in Reqs :
      /\ pc[r] = "done"
      /\ entered[r] = Response(599)
      /\ Len(Named(r, ERROR_COUNT)) = 1
      /\ Len(Named(r, REQUEST_COUNT)) = 1

(* C5: for every request stop_timer executes before record_request_data,   *)
(* and both before record_purchase_metrics: the after-request hooks run in *)
(* the order of their registration.                                        *)
C5_RegistrationOrder ==
    \A r \in Reqs :
      \A i \in 1..Len(ran[r]) : ran[r][i] = after_request_funcs[i]

(* C6: when stop_timer runs for a request, the start timestamp it reads is *)
(* defined and is the one start_timer wrote for that same request, however *)
(* the concurrently in-flight requests interleave.                         *)
C6_OwnStartTime ==
    \A r \in Reqs :
      HasRun(r, "stop_timer") =>
        /\ timer_read[r].set
        /\ timer_read[r].by = r
        /\ timer_read[r].t = started_at[r]

C6_Witness ==
    \E r1 \in Reqs, r2 \in Reqs :
      /\ r1 # r2
      /\ HasRun(r1, "stop_timer")
      /\ timer_read[r1].by = r1
      /\ pc[r2] = "after"
      /\ start_time[ctx(r2)].set
      /\ started_at[r1] < started_at[r2]
      /\ started_at[r2] < now

(* C7: the number of distinct metric-name + tag-set combinations accepted  *)
(* by the program never exceeds maxCardinality.                            *)
C7_CardinalityBounded == Cardinality(DistinctKeys) <= maxCardinality

(* C8, as stated: record_purchase_metrics emits the purchase gauge, the    *)
(* purchase count and the processing-time distribution, in this order,     *)
(* whenever the response is not None and the request is POST /purchase,    *)
(* and nothing otherwise.  Stated here for the invocations in which no     *)
(* statsd call raised, where it already fails.                             *)
C8_AlwaysAllThree ==
    \A r \in Reqs :
      HasRun(r, "record_purchase_metrics") /\ PurchaseFault(r) = 0 =>
        PurchaseSent(r) =
          (IF ~entered[r].is_none /\ Obj(r).path = "/purchase"
              /\ Obj(r).method = "POST"
           THEN PurchaseOrder ELSE <<>>)

(* C8, amended: record_purchase_metrics never raises and returns the       *)
(* response it was given (None for None).  It emits only for a response    *)
(* that is not None on POST /purchase, and then: nothing when the purchase *)
(* amount is not a number; else the gauge, the count (by the quantity, 0   *)
(* when absent) and the distribution, in this order, up to but excluding   *)
(* the first statsd call that raises.                                      *)
C8_PurchaseMetrics ==
    \A r \in Reqs :
      HasRun(r, "record_purchase_metrics") =>
        /\ ran[r][1] = "record_purchase_metrics" =>
             /\ Len(returned[r]) >= 1
             /\ returned[r][1].ret = entered[r]
        /\ PurchaseSent(r) =
             (IF entered[r].is_none \/ Obj(r).path # "/purchase"
                 \/ Obj(r).method # "POST"
                 \/ Obj(r).purchase_amount.t = "str"
              THEN <<>>
              ELSE IF PurchaseFault(r) = 0 THEN PurchaseOrder
              ELSE Take(PurchaseOrder, PurchaseFault(r) - 1))
        /\ CountValues(r) \subseteq {Quantity(r)}

C8_Witness ==
    \E r \in Reqs :
      /\ HasRun(r, "record_purchase_metrics")
      /\ ~entered[r].is_none
      /\ Obj(r).path = "/purchase" /\ Obj(r).method = "POST"
      /\ Obj(r).purchase_amount.t = "str"
      /\ PurchaseSent(r) = <<>>
      /\ Len(returned[r]) >= 1 /\ returned[r][1].ret = entered[r]

(* C9: get_amount_range maps every amount to exactly one of four labels:   *)
(* small below 10, medium from 10 below 50, large from 50 below 200,       *)
(* premium from 200; a larger amount never gets a lower label.             *)
C9_AmountRange ==
    probe.set =>
      /\ probe.ra = (CASE probe.a < 10 -> "small"
                       [] 10 <= probe.a /\ probe.a < 50 -> "medium"
                       [] 50 <= probe.a /\ probe.a < 200 -> "large"
                       [] probe.a >= 200 -> "premium")
      /\ Rank(probe.ra) \in 1..4 /\ Rank(probe.rb) \in 1..4
      /\ probe.a <= probe.b => Rank(probe.ra) <= Rank(probe.rb)

C9_Witness ==
    /\ probe.set
    /\ probe.a = 10 /\ probe.ra = "medium"
    /\ probe.b = 200 /\ probe.rb = "premium"

====
